---- MODULE Spec2Model ----
(***************************************************************************)
(* A model of script.js: the year animation driven by the play button and  *)
(* the slider, the renderer generated for a year, and the easing tooltip.  *)
(*                                                                         *)
(* Years are JavaScript numbers that only ever hold multiples of 0.5; they *)
(* are kept here as integers counting half years (StepsPerYear = 2), so    *)
(* 2016.5 is 4033.  Tooltip coordinates are doubles; they are kept as      *)
(* integers counting 1/Scale of a pixel, rounded to nearest at each step.  *)
(***************************************************************************)
EXTENDS Integers, Sequences, FiniteSets, TLC

\* ------------------------------------------------------------------ bounds
MaxLoops == 2
MaxTicks == 4
MaxShows == 3
MaxNearShows == 2
MaxMoves == 60
MaxPointerMoves == 3

\* -------------------------------------------------------- program constants
StepsPerYear == 2
SliderMin == 1871
SliderMax == 2022
WrapAbove == 2017
WrapTo == 1880
\* Tooltip coordinates are held in units of 1/Scale pixel.
Scale == 1000000

Years(n) == n * StepsPerYear

\* The slider values a thumb-drag delivers in this model (whole years of the
\* slider's range, its two ends and the neighbourhood of the wrap threshold).
DragValues == {Years(SliderMin), Years(WrapAbove - 1), Years(WrapAbove), Years(SliderMax)}

NoAnimation == 0
NoHighlight == 0

VARIABLES
  animation,     \* `animation`: the handle held (a loop's index) or NoAnimation
  toggled,       \* playButton.classList.contains("toggled")
  slider,        \* slider.values[0], in half years
  sliderValue,   \* sliderValue.innerHTML
  renderer,      \* layer.renderer
  loops,         \* one record per call of animate: its closure (animating, value)
  timerQ,        \* setTimeout callbacks pending, oldest first (equal delays)
  rafQ,          \* requestAnimationFrame(frame) callbacks pending, oldest first
  ticks,         \* how many times frame has passed its guard so far (up to MaxTicks + 1)
  lastOp,        \* the handler that ran last
  lastUser,      \* the user event handled last ("dragRunning": a drag that found a handle)
  lastInput      \* event.value of the last thumb-drag

VARIABLES
  tip,           \* the closure of createTooltip: x, y, targetX, targetY, visible, the
                 \* element's opacity, text and transform, and the move callbacks pending
  showsUsed,     \* how many times show has been called
  tipOp,         \* the tooltip operation that ran last
  lastShow,      \* whether the latest show found the tooltip "hidden" or "visible"
  shownPoint,    \* the point given to the latest show, in pixels
  shownText      \* the text given to the latest show

VARIABLES
  highlight,     \* `highlight` of setupHoverTooltip: the handle held (an index) or NoHighlight
  handles,       \* the handles layerview.highlight has returned: the graphic, and whether removed
  inflight,      \* how many hitTest(event) promises are neither resolved nor rejected
  pointerMoves,  \* how many pointer-move events have been delivered
  hoverOp,       \* the hover step that ran last
  lastResults    \* hit.results of the hit-test resolved last

hoverVars == <<highlight, handles, inflight, pointerMoves, hoverOp, lastResults>>

tipVars == <<tip, showsUsed, tipOp, lastShow, shownPoint, shownText>>

animVars == <<animation, toggled, slider, sliderValue, renderer, loops, timerQ, rafQ,
              ticks, lastOp, lastUser, lastInput>>

vars == <<animVars, tipVars, hoverVars>>

\* ------------------------------------------------------------------ helpers
Min(a, b) == IF a < b THEN a ELSE b

\* Math.floor of a non-negative number of half years, in whole years.
Floor(value) == value \div StepsPerYear

\* --------------------------------------------------------------- createRenderer
\* createRenderer with the transparent opacity stop put at year - 1.
createRendererOpacityBelow(year) ==
  [ opacityStops |-> << [opacity |-> 1, value |-> year],
                        [opacity |-> 0, value |-> year - Years(1)] >>,
    colorStops   |-> << [value |-> year, color |-> "#e7ed8a",
                         label |-> <<"in ", Floor(year)>>],
                        [value |-> year - Years(10), color |-> "#eaed13",
                         label |-> <<"in ", Floor(year) - 10>>],
                        [value |-> year - Years(20), color |-> "#007af4",
                         label |-> <<"before ", Floor(year) - 20>>] >> ]

\* createRenderer with the color stops listed from year - 20 up to year.
createRendererColorAscending(year) ==
  [ opacityStops |-> << [opacity |-> 1, value |-> year],
                        [opacity |-> 0, value |-> year + Years(1)] >>,
    colorStops   |-> << [value |-> year - Years(20), color |-> "#007af4",
                         label |-> <<"before ", Floor(year) - 20>>],
                        [value |-> year - Years(10), color |-> "#eaed13",
                         label |-> <<"in ", Floor(year) - 10>>],
                        [value |-> year, color |-> "#e7ed8a",
                         label |-> <<"in ", Floor(year)>>] >> ]

createRenderer(year) ==
  [ opacityStops |-> << [opacity |-> 1, value |-> year],
                        [opacity |-> 0, value |-> year + Years(1)] >>,
    colorStops   |-> << [value |-> year, color |-> "#e7ed8a",
                         label |-> <<"in ", Floor(year)>>],
                        [value |-> year - Years(10), color |-> "#eaed13",
                         label |-> <<"in ", Floor(year) - 10>>],
                        [value |-> year - Years(20), color |-> "#007af4",
                         label |-> <<"before ", Floor(year) - 20>>] >> ]

\* ------------------------------------------------------------------ the page
\* The handlers below are functions from a page state to a page state.
Page == [ animation |-> animation, toggled |-> toggled, slider |-> slider,
          sliderValue |-> sliderValue, renderer |-> renderer, loops |-> loops,
          timerQ |-> timerQ, rafQ |-> rafQ, ticks |-> ticks ]

setYear(s, value) ==
  [s EXCEPT !.sliderValue = Floor(value),
            !.slider = value,
            !.renderer = createRenderer(value)]

\* tick with the wrap test written >= instead of >.
tickWrapAtThreshold(s, l) ==
  LET stepped == s.loops[l].value + 1
      value   == IF stepped >= Years(WrapAbove) THEN Years(WrapTo) ELSE stepped
      s1      == [s EXCEPT !.loops[l].value = value]
      s2      == setYear(s1, value)
  IN [s2 EXCEPT !.timerQ = Append(@, l), !.ticks = Min(@ + 1, MaxTicks + 1)]

\* tick without the wrap.
tickNoWrap(s, l) ==
  LET value == s.loops[l].value + 1
      s1    == [s EXCEPT !.loops[l].value = value]
      s2    == setYear(s1, value)
  IN [s2 EXCEPT !.timerQ = Append(@, l), !.ticks = Min(@ + 1, MaxTicks + 1)]

\* tick without the setTimeout that schedules the next frame.
tickNoTimer(s, l) ==
  LET stepped == s.loops[l].value + 1
      value   == IF stepped > Years(WrapAbove) THEN Years(WrapTo) ELSE stepped
      s1      == [s EXCEPT !.loops[l].value = value]
      s2      == setYear(s1, value)
  IN [s2 EXCEPT !.ticks = Min(@ + 1, MaxTicks + 1)]

\* The body of frame after its guard: the step, the wrap, setYear and the timer.
\* `late` counts the calls of setYear a loop makes after its remove() (capped at 2).
tick(s, l) ==
  LET stepped == s.loops[l].value + 1
      value   == IF stepped > Years(WrapAbove) THEN Years(WrapTo) ELSE stepped
      s1      == [s EXCEPT !.loops[l].value = value,
                           !.loops[l].late = IF s.loops[l].animating THEN @ ELSE Min(@ + 1, 2)]
      s2      == setYear(s1, value)
  IN [s2 EXCEPT !.timerQ = Append(@, l), !.ticks = Min(@ + 1, MaxTicks + 1)]

\* frame of loop l, without the guard on `animating`.
frameUnguarded(s, l) == tick(s, l)

\* frame of loop l. `stale` records that a callback of the loop ran after remove().
frame(s, l) ==
  IF ~s.loops[l].animating
    THEN [s EXCEPT !.loops[l].stale = TRUE]
    ELSE tick(s, l)

\* animate(startValue): a new closure, its first frame() run at once.
animate(s, startValue) ==
  LET l  == Len(s.loops) + 1
      s1 == [s EXCEPT !.loops = Append(@, [animating |-> TRUE, value |-> startValue,
                                           late |-> 0, stale |-> FALSE])]
  IN frame(s1, l)

\* stopAnimation without the call of animation.remove().
stopAnimationNoRemove(s) ==
  IF s.animation = NoAnimation
    THEN s
    ELSE [s EXCEPT !.animation = NoAnimation, !.toggled = FALSE]

\* stopAnimation without playButton.classList.remove("toggled").
stopAnimationKeepToggled(s) ==
  IF s.animation = NoAnimation
    THEN s
    ELSE [s EXCEPT !.loops[s.animation].animating = FALSE,
                   !.animation = NoAnimation]

stopAnimation(s) ==
  IF s.animation = NoAnimation
    THEN s
    ELSE [s EXCEPT !.loops[s.animation].animating = FALSE,
                   !.animation = NoAnimation,
                   !.toggled = FALSE]

startAnimation(s) ==
  LET s1 == stopAnimation(s)
      s2 == animate(s1, s1.slider)
  IN [s2 EXCEPT !.animation = Len(s2.loops), !.toggled = TRUE]

inputHandler(s, value) == setYear(stopAnimation(s), value)

clickHandler(s) == IF s.toggled THEN stopAnimation(s) ELSE startAnimation(s)

\* One display frame: every frame callback pending at its start runs, in order.
RECURSIVE runFrames(_, _)
runFrames(s, q) ==
  IF q = <<>> THEN s ELSE runFrames(frame(s, Head(q)), Tail(q))

Become(s) ==
  /\ animation' = s.animation
  /\ toggled' = s.toggled
  /\ slider' = s.slider
  /\ sliderValue' = s.sliderValue
  /\ renderer' = s.renderer
  /\ loops' = s.loops
  /\ timerQ' = s.timerQ
  /\ rafQ' = s.rafQ
  /\ ticks' = s.ticks

\* ------------------------------------------------------------- createTooltip
Abs(d) == IF d < 0 THEN -d ELSE d

\* d * 0.1, rounded to the nearest unit.
Tenth(d) == IF d >= 0 THEN (2 * d + 10) \div 20 ELSE -((2 * (-d) + 10) \div 20)

\* d * 0.2, rounded to the nearest unit.
Fifth(d) == IF d >= 0 THEN (d + 2) \div 5 ELSE -(((-d) + 2) \div 5)

\* Math.round of a coordinate, in pixels.
Round(v) == (2 * v + Scale) \div (2 * Scale)

\* The points and texts show is called with in this model (pixels).
Points == {<<0, 0>>, <<1, 1>>, <<100, 0>>}
Texts == {"Titled in 1999", "Titled in 2005"}

\* The points and the text of the shows under fair scheduling of frames.
NearPoints == {<<0, 0>>, <<1, 1>>, <<12, 0>>}
NearTexts == {"Titled in 1999"}

\* move with a step of 20% of the remaining distance.
moveFifth(t) ==
  LET x1 == t.x + Fifth(t.targetX - t.x)
      y1 == t.y + Fifth(t.targetY - t.y)
      t1 == IF Abs(t.targetX - x1) < Scale /\ Abs(t.targetY - y1) < Scale
              THEN [t EXCEPT !.x = t.targetX, !.y = t.targetY]
              ELSE [t EXCEPT !.x = x1, !.y = y1, !.pending = @ + 1]
  IN [t1 EXCEPT !.transform = <<Round(t1.x), Round(t1.y)>>, !.moves = Min(@ + 1, MaxMoves)]

\* move without the snap to the target.
moveNoSnap(t) ==
  LET x1 == t.x + Tenth(t.targetX - t.x)
      y1 == t.y + Tenth(t.targetY - t.y)
      t1 == IF x1 = t.targetX /\ y1 = t.targetY
              THEN [t EXCEPT !.x = x1, !.y = y1]
              ELSE [t EXCEPT !.x = x1, !.y = y1, !.pending = @ + 1]
  IN [t1 EXCEPT !.transform = <<Round(t1.x), Round(t1.y)>>, !.moves = Min(@ + 1, MaxMoves)]

\* move(): `pending` counts the requestAnimationFrame(move) callbacks scheduled,
\* `moves` the executions of move since the latest show began (counted up to MaxMoves).
move(t) ==
  LET x1 == t.x + Tenth(t.targetX - t.x)
      y1 == t.y + Tenth(t.targetY - t.y)
      t1 == IF Abs(t.targetX - x1) < Scale /\ Abs(t.targetY - y1) < Scale
              THEN [t EXCEPT !.x = t.targetX, !.y = t.targetY]
              ELSE [t EXCEPT !.x = x1, !.y = y1, !.pending = @ + 1]
  IN [t1 EXCEPT !.transform = <<Round(t1.x), Round(t1.y)>>, !.moves = Min(@ + 1, MaxMoves)]

\* show without the snap of a hidden tooltip.
showNoSnap(t, point, text) ==
  LET t1 == [t EXCEPT !.fromX = t.x, !.fromY = t.y, !.moves = 0,
                      !.settled = (t.x = t.targetX /\ t.y = t.targetY)]
      t2 == [t1 EXCEPT !.targetX = point[1] * Scale, !.targetY = point[2] * Scale,
                       !.opacity = "1", !.visible = TRUE, !.text = text]
  IN move(t2)

\* show that snaps to the point also when the tooltip is visible.
showAlwaysSnap(t, point, text) ==
  LET t0 == [t EXCEPT !.x = point[1] * Scale, !.y = point[2] * Scale]
      t1 == [t0 EXCEPT !.fromX = t.x, !.fromY = t.y, !.moves = 0,
                       !.settled = (t.x = t.targetX /\ t.y = t.targetY)]
      t2 == [t1 EXCEPT !.targetX = point[1] * Scale, !.targetY = point[2] * Scale,
                       !.opacity = "1", !.visible = TRUE, !.text = text]
  IN move(t2)

\* show without the call of move().
showNoMove(t, point, text) ==
  LET t0 == IF ~t.visible
              THEN [t EXCEPT !.x = point[1] * Scale, !.y = point[2] * Scale]
              ELSE t
      t1 == [t0 EXCEPT !.fromX = t0.x, !.fromY = t0.y, !.moves = 0,
                       !.settled = (t.x = t.targetX /\ t.y = t.targetY)]
  IN [t1 EXCEPT !.targetX = point[1] * Scale, !.targetY = point[2] * Scale,
                !.opacity = "1", !.visible = TRUE, !.text = text]

\* show(point, text). fromX, fromY record the position the easing starts from,
\* `settled` whether the tooltip was at its previous target when show was called.
show(t, point, text) ==
  LET t0 == IF ~t.visible
              THEN [t EXCEPT !.x = point[1] * Scale, !.y = point[2] * Scale]
              ELSE t
      t1 == [t0 EXCEPT !.fromX = t0.x, !.fromY = t0.y, !.moves = 0,
                       !.settled = (t.x = t.targetX /\ t.y = t.targetY)]
      t2 == [t1 EXCEPT !.targetX = point[1] * Scale, !.targetY = point[2] * Scale,
                       !.opacity = "1", !.visible = TRUE, !.text = text]
  IN move(t2)

\* hide that sets the opacity only.
hideOpacityOnly(t) == [t EXCEPT !.opacity = "0"]

hide(t) == [t EXCEPT !.opacity = "0", !.visible = FALSE]

\* One display frame: the n move callbacks pending at its start run.
RECURSIVE runMoves(_, _)
runMoves(t, n) == IF n = 0 THEN t ELSE runMoves(move(t), n - 1)

TipInit ==
  /\ tip = [ x |-> 0, y |-> 0, targetX |-> 0, targetY |-> 0, visible |-> FALSE,
             opacity |-> "", text |-> "", transform |-> <<>>, pending |-> 0,
             fromX |-> 0, fromY |-> 0, moves |-> 0, settled |-> TRUE ]
  /\ showsUsed = 0
  /\ tipOp = "init"
  /\ lastShow = "none"
  /\ shownPoint = <<0, 0>>
  /\ shownText = ""

\* tooltip.show(point, text), while the model has shows left
ShowAmong(points, texts, max) ==
  /\ showsUsed < max
  /\ \E point \in points, text \in texts :
       /\ tip' = show(tip, point, text)
       /\ shownPoint' = point
       /\ shownText' = text
  /\ showsUsed' = showsUsed + 1
  /\ tipOp' = "show"
  /\ lastShow' = IF tip.visible THEN "visible" ELSE "hidden"
  /\ UNCHANGED <<animVars, hoverVars>>

Show == ShowAmong(Points, Texts, MaxShows)

ShowNear == ShowAmong(NearPoints, NearTexts, MaxNearShows)

\* tooltip.hide()
Hide ==
  /\ tip' = hide(tip)
  /\ tipOp' = "hide"
  /\ UNCHANGED <<showsUsed, lastShow, shownPoint, shownText, animVars, hoverVars>>

\* a display frame runs the pending move callbacks
TipFrame ==
  /\ tip.pending > 0
  /\ tip' = runMoves([tip EXCEPT !.pending = 0], tip.pending)
  /\ tipOp' = "frame"
  /\ UNCHANGED <<showsUsed, lastShow, shownPoint, shownText, animVars, hoverVars>>

TipNext == Show \/ Hide \/ TipFrame

TipNearNext == ShowNear \/ Hide \/ TipFrame

\* ---------------------------------------------------------- setupHoverTooltip
\* The graphics a hit-test can return: two footprints of `layer` with their
\* CNSTRCT_YR, and a graphic of another layer.
Layer == "Building Footprints"
Footprint1 == [layer |-> Layer, CNSTRCT_YR |-> "1999"]
Footprint2 == [layer |-> Layer, CNSTRCT_YR |-> "2005"]
OtherGraphic == [layer |-> "basemap", CNSTRCT_YR |-> ""]

\* hit.results of the hit-tests in this model, and their screen points (pixels).
HitResults == { <<>>, <<OtherGraphic>>, <<Footprint1>>, <<OtherGraphic, Footprint2>>,
                <<Footprint2, Footprint1>> }
ScreenPoints == {<<0, 0>>, <<1, 1>>, <<12, 0>>}

NoHit == [found |-> FALSE]

\* The function given to promiseUtils.debounce: the results on `layer`, the first kept.
hitTest(results, screenPoint) ==
  LET onLayer == SelectSeq(results, LAMBDA result : result.layer = Layer)
  IN IF Len(onLayer) = 0
       THEN NoHit
       ELSE [found |-> TRUE, graphic |-> onLayer[1], screenPoint |-> screenPoint]

Hover == [highlight |-> highlight, handles |-> handles, tip |-> tip]

\* The pointer-move handler's onFulfilled without highlight.remove().
onHitNoRemove(h, hit) ==
  IF hit.found
    THEN [h EXCEPT !.handles = Append(@, [graphic |-> hit.graphic, removed |-> FALSE]),
                   !.highlight = Len(h.handles) + 1,
                   !.tip = show(@, hit.screenPoint, "Titled in " \o hit.graphic.CNSTRCT_YR)]
    ELSE [h EXCEPT !.highlight = NoHighlight, !.tip = hide(@)]

\* The pointer-move handler's onFulfilled without tooltip.hide().
onHitNoHide(h, hit) ==
  LET h1 == IF h.highlight # NoHighlight
              THEN [h EXCEPT !.handles[h.highlight].removed = TRUE,
                             !.highlight = NoHighlight]
              ELSE h
  IN IF hit.found
       THEN [h1 EXCEPT !.handles = Append(@, [graphic |-> hit.graphic, removed |-> FALSE]),
                       !.highlight = Len(h1.handles) + 1,
                       !.tip = show(@, hit.screenPoint, "Titled in " \o hit.graphic.CNSTRCT_YR)]
       ELSE h1

\* The pointer-move handler's onFulfilled: (hit) => { ... }.
onHit(h, hit) ==
  LET h1 == IF h.highlight # NoHighlight
              THEN [h EXCEPT !.handles[h.highlight].removed = TRUE,
                             !.highlight = NoHighlight]
              ELSE h
  IN IF hit.found
       THEN [h1 EXCEPT !.handles = Append(@, [graphic |-> hit.graphic, removed |-> FALSE]),
                       !.highlight = Len(h1.handles) + 1,
                       !.tip = show(@, hit.screenPoint, "Titled in " \o hit.graphic.CNSTRCT_YR)]
       ELSE [h1 EXCEPT !.tip = hide(@)]

\* An onRejected that clears the highlight and hides the tooltip.
onHitRejectedClears(h) ==
  LET h1 == IF h.highlight # NoHighlight
              THEN [h EXCEPT !.handles[h.highlight].removed = TRUE,
                             !.highlight = NoHighlight]
              ELSE h
  IN [h1 EXCEPT !.tip = hide(@)]

\* The pointer-move handler's onRejected: () => {}.
onHitRejected(h) == h

HoverInit ==
  /\ highlight = NoHighlight
  /\ handles = <<>>
  /\ inflight = 0
  /\ pointerMoves = 0
  /\ hoverOp = "init"
  /\ lastResults = <<>>

\* view "pointer-move": hitTest(event) is called, its promise is pending
PointerMove ==
  /\ pointerMoves < MaxPointerMoves
  /\ pointerMoves' = pointerMoves + 1
  /\ inflight' = inflight + 1
  /\ hoverOp' = "pointer-move"
  /\ UNCHANGED <<highlight, handles, lastResults, tipVars, animVars>>

\* a pending hit-test resolves: the filter, then the handler's onFulfilled
HitResolve ==
  /\ inflight > 0
  /\ \E results \in HitResults, screenPoint \in ScreenPoints :
       LET hit == hitTest(results, screenPoint)
           h   == onHit(Hover, hit)
       IN /\ highlight' = h.highlight
          /\ handles' = h.handles
          /\ tip' = h.tip
          /\ lastResults' = results
          /\ tipOp' = IF hit.found THEN "show" ELSE "hide"
          /\ showsUsed' = IF hit.found THEN showsUsed + 1 ELSE showsUsed
          /\ lastShow' = IF ~hit.found THEN lastShow
                         ELSE IF tip.visible THEN "visible" ELSE "hidden"
          /\ shownPoint' = IF hit.found THEN screenPoint ELSE shownPoint
          /\ shownText' = IF hit.found THEN h.tip.text ELSE shownText
  /\ inflight' = inflight - 1
  /\ hoverOp' = "resolve"
  /\ UNCHANGED <<pointerMoves, animVars>>

\* a pending hit-test rejects: the handler's onRejected
HitReject ==
  /\ inflight > 0
  /\ LET h == onHitRejected(Hover)
     IN /\ highlight' = h.highlight
        /\ handles' = h.handles
        /\ tip' = h.tip
  /\ inflight' = inflight - 1
  /\ hoverOp' = "reject"
  /\ UNCHANGED <<pointerMoves, lastResults, showsUsed, tipOp, lastShow, shownPoint,
                 shownText, animVars>>

HoverNext == PointerMove \/ HitResolve \/ HitReject \/ TipFrame

\* ------------------------------------------------------------------ actions
AnimInit ==
  LET s == setYear([ animation |-> NoAnimation, toggled |-> FALSE, slider |-> Years(SliderMin),
                     sliderValue |-> 0, renderer |-> <<>>, loops |-> <<>>,
                     timerQ |-> <<>>, rafQ |-> <<>>, ticks |-> 0 ], Years(SliderMin))
  IN /\ animation = s.animation
     /\ toggled = s.toggled
     /\ slider = s.slider
     /\ sliderValue = s.sliderValue
     /\ renderer = s.renderer
     /\ loops = s.loops
     /\ timerQ = s.timerQ
     /\ rafQ = s.rafQ
     /\ ticks = s.ticks
     /\ lastOp = "init"
     /\ lastUser = "init"
     /\ lastInput = Years(SliderMin)

\* slider "thumb-drag"
Drag ==
  \E value \in DragValues :
    /\ Become(inputHandler(Page, value))
    /\ lastOp' = "drag"
    /\ lastUser' = IF animation # NoAnimation THEN "dragRunning" ELSE "drag"
    /\ lastInput' = value
    /\ UNCHANGED <<tipVars, hoverVars>>

\* playButton "click"; a new loop is started only while the model has room for it
Click ==
  /\ toggled \/ Len(loops) < MaxLoops
  /\ clickHandler(Page).ticks <= MaxTicks
  /\ Become(clickHandler(Page))
  /\ lastOp' = "click"
  /\ lastUser' = "click"
  /\ UNCHANGED <<lastInput, tipVars, hoverVars>>

\* the oldest setTimeout callback fires: requestAnimationFrame(frame)
TimerFire ==
  /\ timerQ # <<>>
  /\ Become([Page EXCEPT !.timerQ = Tail(@), !.rafQ = Append(@, Head(timerQ))])
  /\ lastOp' = "timer"
  /\ UNCHANGED <<lastUser, lastInput, tipVars, hoverVars>>

\* a display frame runs the pending frame callbacks (while the model has ticks left)
AnimFrame ==
  /\ rafQ # <<>>
  /\ runFrames([Page EXCEPT !.rafQ = <<>>], rafQ).ticks <= MaxTicks
  /\ Become(runFrames([Page EXCEPT !.rafQ = <<>>], rafQ))
  /\ lastOp' = "frame"
  /\ UNCHANGED <<lastUser, lastInput, tipVars, hoverVars>>

AnimNext == Drag \/ Click \/ TimerFire \/ AnimFrame

Init == AnimInit /\ TipInit /\ HoverInit

Spec == Init /\ [][AnimNext]_vars

TipSpec == Init /\ [][TipNext]_vars

HoverSpec == Init /\ [][HoverNext]_vars

\* Display frames keep coming: a pending move callback is eventually run.
TipFairSpec == Init /\ [][TipNearNext]_vars /\ WF_vars(TipFrame)

\* ------------------------------------------- an animation that is never stopped
\* The slider is dragged only before the play button is clicked, the button is
\* clicked once, and timers and display frames keep coming.
DragIdle == animation = NoAnimation /\ Drag

ClickPlay == ~toggled /\ Click

\* a display frame runs the pending frame callbacks
RunFrame ==
  /\ rafQ # <<>>
  /\ Become(runFrames([Page EXCEPT !.rafQ = <<>>], rafQ))
  /\ lastOp' = "frame"
  /\ UNCHANGED <<lastUser, lastInput, tipVars, hoverVars>>

RunNext == DragIdle \/ ClickPlay \/ TimerFire \/ RunFrame

RunFairSpec == Init /\ [][RunNext]_vars /\ WF_vars(TimerFire) /\ WF_vars(RunFrame)

\* ------------------------------------------------- the renderer of every year
\* setYear applied to any value of the slider's range, whole and half years.
YearInputs == Years(SliderMin) .. Years(SliderMax)

SetAnyYear ==
  /\ \E value \in YearInputs : Become(setYear(Page, value))
  /\ lastOp' = "setYear"
  /\ UNCHANGED <<lastUser, lastInput, tipVars, hoverVars>>

RenderNext == SetAnyYear

RenderSpec == Init /\ [][RenderNext]_vars

\* ------------------------------------------------------------------ claims
Animating == {l \in DOMAIN loops : loops[l].animating}
Pending(l) == (\E i \in DOMAIN timerQ : timerQ[i] = l) \/ (\E i \in DOMAIN rafQ : rafQ[i] = l)

\* C1: once a loop's remove() has been called, the loop calls setYear at most
\* one more time, whatever order the pending timer and frame callbacks run in.
C1_AtMostOneLateCall == \A l \in DOMAIN loops : loops[l].late <= 1

\* A frame callback of a stopped loop has run.
C1_Witness == \E l \in DOMAIN loops : ~loops[l].animating /\ loops[l].stale

\* The value after one tick from v, as the claim states it.
AfterTick(v) == IF v + 1 > Years(2017) THEN Years(1880) ELSE v + 1

\* C2: every tick replaces the tracked value v by v + 0.5, or by 1880 when
\* v + 0.5 > 2017 (2017 itself is kept: 2016.5 -> 2017 -> 1880), and setYear
\* receives the value after the step.
C2_TickStep ==
  [][ /\ lastOp' = "frame" =>
           \A i \in DOMAIN rafQ :
              loops[rafQ[i]].animating =>
                 /\ loops'[rafQ[i]].value = AfterTick(loops[rafQ[i]].value)
                 /\ slider' = loops'[rafQ[i]].value
                 /\ (loops[rafQ[i]].value = 4033 => slider' = 4034)
                 /\ (loops[rafQ[i]].value = 4034 => slider' = 3760)
      /\ Len(loops') > Len(loops) =>
           /\ loops'[Len(loops')].value = AfterTick(slider)
           /\ slider' = loops'[Len(loops')].value
      /\ ticks' # ticks => sliderValue' = Floor(slider')
    ]_vars

\* A frame has just wrapped the running loop's value from 2017 to 1880.
C2_Witness ==
  /\ lastOp = "frame"
  /\ animation # NoAnimation
  /\ loops[animation].value = Years(WrapTo)
  /\ slider = Years(WrapTo)

\* C3: at most one loop has its animating flag true, also while callbacks of
\* stopped loops are pending.
C3_OneLoopAnimating == Cardinality(Animating) <= 1

\* A second loop runs while a callback of the first, stopped, loop is pending.
C3_Witness ==
  /\ Len(loops) >= 2
  /\ loops[2].animating
  /\ ~loops[1].animating
  /\ Pending(1)

\* C4: the year given to setYear, shown by the label, the slider and the
\* renderer, is within [1871, 2022].
C4_YearInRange ==
  /\ slider >= Years(1871)
  /\ slider <= Years(2022)
  /\ sliderValue >= 1871
  /\ sliderValue <= 2022
  /\ renderer.colorStops[1].value = slider

\* The animation was started from the slider's maximum, 2022.
C4_Witness ==
  /\ lastOp = "click"
  /\ toggled
  /\ lastInput = Years(SliderMax)
  /\ ticks > 0
  /\ slider = Years(WrapTo)

\* C5: after a thumb-drag with value v no animation is held, the play button
\* is not toggled, and the year is v and stays v, whatever callbacks run,
\* until the next drag or click.
C5_DragHolds ==
  lastUser \in {"drag", "dragRunning"} =>
     /\ animation = NoAnimation
     /\ ~toggled
     /\ slider = lastInput
     /\ sliderValue = Floor(lastInput)
     /\ Animating = {}

\* A drag stopped a running animation and a callback of that loop ran afterwards.
C5_Witness ==
  /\ lastUser = "dragRunning"
  /\ lastOp = "frame"
  /\ slider = lastInput
  /\ \E l \in DOMAIN loops : loops[l].stale

\* C10: createRenderer(y) has exactly three color stops, at y, y - 10 and
\* y - 20 in that decreasing order, and exactly two opacity stops, opacity 1
\* at y and opacity 0 at y + 1; it is determined by y alone.
C10_RendererStops ==
  /\ Len(renderer.colorStops) = 3
  /\ renderer.colorStops[1].value = slider
  /\ renderer.colorStops[2].value = slider - Years(10)
  /\ renderer.colorStops[3].value = slider - Years(20)
  /\ renderer.colorStops[1].value > renderer.colorStops[2].value
  /\ renderer.colorStops[2].value > renderer.colorStops[3].value
  /\ Len(renderer.opacityStops) = 2
  /\ renderer.opacityStops[1] = [opacity |-> 1, value |-> slider]
  /\ renderer.opacityStops[2] = [opacity |-> 0, value |-> slider + Years(1)]

\* The renderer of a half year, 1999.5.
C10_Witness ==
  /\ lastOp = "setYear"
  /\ slider = 3999
  /\ renderer.colorStops[3].value = 3959

\* ---------------------------------------------------------- tooltip claims
AtTarget == tip.x = tip.targetX /\ tip.y = tip.targetY
AtShownPoint == tip.x = shownPoint[1] * Scale /\ tip.y = shownPoint[2] * Scale
TargetIsShownPoint ==
  tip.targetX = shownPoint[1] * Scale /\ tip.targetY = shownPoint[2] * Scale

\* C6: show(point, text) on a hidden tooltip leaves the position and the
\* target at point exactly, the tooltip visible with opacity 1 and the text
\* set, also while a move callback from before the hide is pending; the
\* position never is an eased value between the old position and point.
C6_ShowOnHiddenSnaps ==
  lastShow = "hidden" =>
     /\ AtShownPoint
     /\ TargetIsShownPoint
     /\ tip.transform = shownPoint
     /\ tip.text = shownText
     /\ (tipOp = "show" => tip.visible /\ tip.opacity = "1")

\* show has just run on a hidden tooltip with a move callback still pending.
C6_Witness ==
  /\ tipOp = "show"
  /\ lastShow = "hidden"
  /\ tip.pending > 0
  /\ AtShownPoint

\* C7 as stated: a show(p2) on a visible tooltip at p1 never leaves the
\* position at p2 unless p2 = p1.
C7_SecondShowNeverAtPoint ==
  (tipOp = "show" /\ lastShow = "visible" /\ <<tip.fromX, tip.fromY>> # <<tip.targetX, tip.targetY>>)
     => ~AtTarget

\* C7, amended: a show(p2) on a visible tooltip resting at p1 leaves the
\* position at p2 exactly when p2 is within 10/9 pixel of p1 on both axes
\* (the 10% step leaves both gaps below 1 pixel); otherwise the position is
\* p1 + 0.1 * (p2 - p1), which is not p2, and a move callback is pending.
C7_SecondShowEases ==
  (tipOp = "show" /\ lastShow = "visible" /\ tip.settled) =>
     IF /\ 9 * Abs(tip.targetX - tip.fromX) < 10 * Scale
        /\ 9 * Abs(tip.targetY - tip.fromY) < 10 * Scale
       THEN AtTarget
       ELSE /\ 10 * tip.x = 9 * tip.fromX + tip.targetX
            /\ 10 * tip.y = 9 * tip.fromY + tip.targetY
            /\ ~AtTarget
            /\ tip.pending >= 1
            /\ TargetIsShownPoint

\* show((100,0)) has just run on a visible tooltip resting at (0,0): it is at (10,0).
C7_Witness ==
  /\ tipOp = "show"
  /\ lastShow = "visible"
  /\ tip.settled
  /\ tip.fromX = 0 /\ tip.fromY = 0
  /\ shownPoint = <<100, 0>>
  /\ tip.x = 10 * Scale /\ tip.y = 0

EasingDone == tip.pending = 0 /\ AtTarget /\ TargetIsShownPoint

\* C8: after the n-th show, unless a further show is called, the easing ends:
\* eventually no move callback is pending and the position is exactly the
\* target of that (the most recent) show; and it stays so until the next show.
C8_EasingTerminates ==
  /\ \A n \in 1 .. MaxNearShows : (showsUsed = n) ~> (showsUsed > n \/ EasingDone)
  /\ [][(EasingDone /\ showsUsed' = showsUsed) => EasingDone']_vars

\* A frame has ended an easing towards the point of the second show.
C8_Witness ==
  /\ EasingDone
  /\ tipOp = "frame"
  /\ lastShow = "visible"
  /\ showsUsed >= 2
  /\ tip.moves > 2

\* The decimal digits, lowest first, of 9 * (the number of digits ds) + carry.
RECURSIVE TimesNine(_, _)
TimesNine(ds, carry) ==
  IF ds = <<>>
    THEN IF carry = 0 THEN <<>> ELSE <<carry>>
    ELSE <<(9 * Head(ds) + carry) % 10>> \o TimesNine(Tail(ds), (9 * Head(ds) + carry) \div 10)

\* The decimal digits of 100 * 9^n.
RECURSIVE HundredTimesNinePow(_)
HundredTimesNinePow(n) ==
  IF n = 0 THEN <<0, 0, 1>> ELSE TimesNine(HundredTimesNinePow(n - 1), 0)

\* 100 * 0.9^n < 1, that is 100 * 9^n < 10^n: 100 * 9^n has at most n digits.
GapBelowOne(n) == Len(HundredTimesNinePow(n)) <= n

\* C9: easing from (0,0) towards (100,0), the position is exactly (100,0)
\* once move has run 44 times and not earlier, and only once 100 * 0.9^n < 1.
C9_ConvergesIn44 ==
  (tip.fromX = 0 /\ tip.fromY = 0 /\ tip.targetX = 100 * Scale /\ tip.targetY = 0) =>
     /\ AtTarget <=> tip.moves >= 44
     /\ AtTarget <=> GapBelowOne(tip.moves)

\* The 44th execution of move has put the tooltip at (100,0).
C9_Witness ==
  /\ tip.fromX = 0 /\ tip.fromY = 0
  /\ tip.targetX = 100 * Scale /\ tip.targetY = 0
  /\ tip.moves = 44
  /\ AtTarget
  /\ tip.transform = <<100, 0>>

\* ------------------------------------------------------ further tooltip claims
\* C13 as stated: show(point2, text2) on a visible tooltip sets the target and
\* the text and leaves the position, when it returns, where it was.
C13_ShowLeavesPosition ==
  (tipOp = "show" /\ lastShow = "visible") =>
     /\ TargetIsShownPoint
     /\ tip.text = shownText
     /\ tip.x = tip.fromX
     /\ tip.y = tip.fromY

\* C13, amended: show(point2, text2) on a visible tooltip sets the target and
\* the text and runs move once before it returns: the position is then 10% of
\* the gap nearer to point2, or point2 itself when that leaves both axis gaps
\* below one pixel; it is where it was only when it already was at point2.
C13_ShowStepsOnce ==
  (tipOp = "show" /\ lastShow = "visible") =>
     /\ TargetIsShownPoint
     /\ tip.text = shownText
     /\ tip.visible
     /\ tip.moves = 1
     /\ \/ AtTarget
        \/ /\ tip.x = tip.fromX + Tenth(tip.targetX - tip.fromX)
           /\ tip.y = tip.fromY + Tenth(tip.targetY - tip.fromY)
     /\ (tip.x = tip.fromX /\ tip.y = tip.fromY) <=>
           (tip.fromX = tip.targetX /\ tip.fromY = tip.targetY)

\* show has just run on a visible tooltip that was still easing, and moved it.
C13_Witness ==
  /\ tipOp = "show"
  /\ lastShow = "visible"
  /\ ~tip.settled
  /\ tip.x # tip.fromX
  /\ ~AtTarget

Position == <<tip.x, tip.y>>
Target == <<tip.targetX, tip.targetY>>

\* C14 as stated: hide leaves the tooltip not visible with opacity 0, position,
\* target and text unchanged, and a hidden tooltip keeps its position and text,
\* also while a move callback scheduled before the hide is pending.
C14_HiddenKeepsPosition ==
  [][ /\ tipOp' = "hide" =>
           ~tip'.visible /\ tip'.opacity = "0" /\ Position' = Position
             /\ Target' = Target /\ tip'.text = tip.text
      /\ (~tip.visible /\ ~tip'.visible) => (Position' = Position /\ tip'.text = tip.text)
    ]_vars

\* C14, amended: hide leaves the tooltip not visible with opacity 0, position,
\* target and text unchanged; a hidden tooltip keeps its target and text, and
\* its position is changed only by the move callbacks still pending, which go
\* on easing it towards the target.
C14_HiddenKeepsTargetAndText ==
  [][ /\ tipOp' = "hide" =>
           ~tip'.visible /\ tip'.opacity = "0" /\ Position' = Position
             /\ Target' = Target /\ tip'.text = tip.text
      /\ (~tip.visible /\ ~tip'.visible) =>
           /\ Target' = Target
           /\ tip'.text = tip.text
           /\ Position' # Position =>
                /\ tipOp' = "frame"
                /\ tip.pending > 0
                /\ Abs(tip'.targetX - tip'.x) <= Abs(tip.targetX - tip.x)
                /\ Abs(tip'.targetY - tip'.y) <= Abs(tip.targetY - tip.y)
    ]_vars

\* A frame has run move on a hidden tooltip that was still easing.
C14_Witness ==
  /\ ~tip.visible
  /\ tipOp = "frame"
  /\ tip.moves >= 2
  /\ tip.x # tip.fromX
  /\ ~AtTarget

\* C18: at most one move callback is pending at any time, so a display frame
\* advances the position by one 10% step.
C18_OnePendingMove == tip.pending <= 1

\* ----------------------------------------------------- further renderer claims
Decreasing(stops) == \A i \in 1 .. Len(stops) - 1 : stops[i].value > stops[i + 1].value
Increasing(stops) == \A i \in 1 .. Len(stops) - 1 : stops[i].value < stops[i + 1].value

\* C17 as stated: the stops of the opacity ramp and of the color ramp are both
\* listed in decreasing order of value.
C17_BothRampsDecreasing ==
  Decreasing(renderer.opacityStops) /\ Decreasing(renderer.colorStops)

\* C17, amended: the stops of the color ramp are listed in decreasing order of
\* value; the two stops of the opacity ramp are listed in increasing order.
C17_ColorDecreasingOpacityIncreasing ==
  /\ Decreasing(renderer.colorStops)
  /\ Len(renderer.colorStops) > 1
  /\ Increasing(renderer.opacityStops)
  /\ Len(renderer.opacityStops) > 1

\* The renderer of the slider's highest year, 2022.
C17_Witness ==
  /\ lastOp = "setYear"
  /\ slider = Years(SliderMax)
  /\ renderer.opacityStops[2].value = 4046

\* ---------------------------------------------------- further animation claims
HandleAnimating ==
  IF animation = NoAnimation THEN FALSE ELSE loops[animation].animating

\* C19: between handlers the play button is "toggled" exactly when a handle is
\* held, and then that handle's loop is the one animating; a click flips the
\* class, and a drag leaves it off with no handle.
C19_ToggledIffRunning ==
  /\ [](/\ toggled <=> animation # NoAnimation
        /\ toggled <=> HandleAnimating
        /\ Animating = IF toggled THEN {animation} ELSE {})
  /\ [][lastOp' = "click" => toggled' = ~toggled]_vars
  /\ [][lastOp' = "drag" => (~toggled' /\ animation' = NoAnimation)]_vars

\* A click has started a second loop after the first was stopped.
C19_Witness ==
  /\ lastOp = "click"
  /\ toggled
  /\ animation = 2
  /\ ~loops[1].animating

\* C16: an animation that is running and never stopped does not halt: a
\* callback of its loop is always pending, a further tick always eventually
\* fires, and the value wraps to 1880 again and again.
C16_LoopNeverHalts ==
  /\ [](animation # NoAnimation => Pending(animation))
  /\ (animation # NoAnimation /\ lastOp # "frame") ~> (lastOp = "frame")
  /\ (animation # NoAnimation /\ lastOp = "frame") ~> (lastOp = "timer")
  /\ (animation # NoAnimation /\ slider > Years(WrapTo)) ~>
        (lastOp = "frame" /\ slider = Years(WrapTo) /\ loops[animation].value = Years(WrapTo))

\* An animation started from 2016 has wrapped to 1880, run up to 2017 and wrapped again.
C16_Witness ==
  /\ animation # NoAnimation
  /\ lastInput = Years(WrapAbove - 1)
  /\ lastOp = "frame"
  /\ slider = Years(WrapTo)
  /\ ticks > MaxTicks

\* ---------------------------------------------------------------- hover claims
ActiveHighlights == {i \in DOMAIN handles : ~handles[i].removed}

\* C11: the highlights created and not removed never number more than one,
\* and the one there is is the one `highlight` holds.
C11_OneHighlight ==
  /\ Cardinality(ActiveHighlights) <= 1
  /\ ActiveHighlights = IF highlight = NoHighlight THEN {} ELSE {highlight}

\* A second highlight has replaced the first, which was removed.
C11_Witness ==
  /\ Len(handles) >= 2
  /\ handles[1].removed
  /\ highlight = 2
  /\ ~handles[2].removed

\* The results of the last hit-test that are features of the layer.
MatchedIndexes == {i \in DOMAIN lastResults : lastResults[i].layer = "Building Footprints"}
FirstMatch == lastResults[CHOOSE i \in MatchedIndexes : \A j \in MatchedIndexes : i <= j]

\* C12: after a resolved hit-test that matched a feature, that feature is
\* highlighted and the tooltip is visible with "Titled in " and its year;
\* after one that matched nothing, no highlight is held and the tooltip is
\* hidden; the tooltip is visible exactly when a highlight is held.
C12_TooltipAgreesWithHighlight ==
  /\ hoverOp = "resolve" =>
        IF MatchedIndexes # {}
          THEN /\ highlight # NoHighlight
               /\ handles[highlight].graphic = FirstMatch
               /\ ~handles[highlight].removed
               /\ tip.visible
               /\ tip.opacity = "1"
               /\ tip.text = "Titled in " \o FirstMatch.CNSTRCT_YR
          ELSE /\ highlight = NoHighlight
               /\ ~tip.visible
  /\ tip.visible <=> highlight # NoHighlight

\* A hit-test that matched nothing has resolved after one that matched a feature.
C12_Witness ==
  /\ hoverOp = "resolve"
  /\ MatchedIndexes = {}
  /\ lastResults # <<>>
  /\ Len(handles) >= 1
  /\ ~tip.visible

\* C15: a rejected hit-test changes nothing: the highlight held, the highlights
\* of the layer view and the tooltip are as they were; nor does the
\* pointer-move event itself change them.
C15_RejectChangesNothing ==
  [][ (inflight' # inflight /\ hoverOp' \in {"reject", "pointer-move"}) =>
         /\ highlight' = highlight
         /\ handles' = handles
         /\ tip' = tip
         /\ lastResults' = lastResults
    ]_vars

\* A hit-test has been rejected while a feature was highlighted and the tooltip easing.
C15_Witness ==
  /\ hoverOp = "reject"
  /\ highlight # NoHighlight
  /\ tip.visible
  /\ tip.pending > 0

====
